---- MODULE Spec2Model ----
(***************************************************************************)
(* Coordinate-exchange design optimisation (optimal_splitk/doe.py):        *)
(* x2fx, generate_coordinates, optimize and the multi-start driver doe.    *)
(* Matrices are sequences of rows; the loop indices of the code (factor,   *)
(* group, column, run) keep their 0-based values and are shifted by one    *)
(* where a sequence is indexed.                                            *)
(***************************************************************************)
EXTENDS Integers, Sequences, FiniteSets, TLC

(* ------------------------------ bounds --------------------------------- *)
\* n_tries argument of doe
NTries == 2
\* max_it argument of doe / optimize
MaxIt == 2
\* how many times the criterion's update may raise during one run of doe
MaxFaults == 1
\* largest entry of a design matrix handed to x2fx on its own
MaxVal == 3
\* largest power of a factor in a model term handed to x2fx on its own
MaxExp == 2
\* largest number of categorical levels handed to generate_coordinates
MaxLvl == 4
\* longest plot_sizes, and largest plot size, the strata are computed for
MaxStrata == 3
MaxPlot == 3

(* ----------------------------- options --------------------------------- *)
None == [isNone |-> TRUE, v |-> <<>>]
Some(x) == [isNone |-> FALSE, v |-> x]

(* --------------------------- numpy helpers ----------------------------- *)
RECURSIVE SeqSum(_)
SeqSum(s) == IF s = <<>> THEN 0 ELSE s[1] + SeqSum(Tail(s))

RECURSIVE SeqProd(_)
SeqProd(s) == IF s = <<>> THEN 1 ELSE s[1] * SeqProd(Tail(s))

Reverse(s) == [k \in 1..Len(s) |-> s[Len(s) + 1 - k]]

\* np.cumprod / np.cumsum of a 1-d array
CumProd(s) == [k \in 1..Len(s) |-> SeqProd(SubSeq(s, 1, k))]
CumSum(s) == [k \in 1..Len(s) |-> SeqSum(SubSeq(s, 1, k))]

RECURSIVE Pow(_, _)
Pow(b, e) == IF e = 0 THEN 1 ELSE b * Pow(b, e - 1)

\* ndarray.size of a 2-d array given as a sequence of rows
Size2(a) == SeqSum([k \in 1..Len(a) |-> Len(a[k])])

\* np.eye(n) and -np.ones((1, n))
Eye(n) == [r \in 1..n |-> [c \in 1..n |-> IF r = c THEN 1 ELSE 0]]
NegOnes(n) == << [c \in 1..n |-> -1] >>

(* ------------------------------- x2fx ---------------------------------- *)
\* one entry of the model matrix: the product of the powers of one term
RECURSIVE TermProd(_, _, _)
TermProd(row, term, j) ==
    IF j > Len(term) THEN 1
    ELSE (IF term[j] # 0
             THEN (IF term[j] = 1 THEN row[j] ELSE Pow(row[j], term[j]))
             ELSE 1) * TermProd(row, term, j + 1)

\* faulty variant: every nonzero power is taken as the first power
x2fx_FirstPowerOnly(Y, model) ==
    [r \in 1..Len(Y) |-> [t \in 1..Len(model) |->
        SeqProd([j \in 1..Len(model[t]) |->
                    IF model[t][j] # 0 THEN Y[r][j] ELSE 1])]]

x2fx(Y, model) ==
    [r \in 1..Len(Y) |-> [t \in 1..Len(model) |-> TermProd(Y[r], model[t], 1)]]

(* ------------------------ generate_coordinates ------------------------- *)
\* faulty variant: the row of -1 comes before the identity rows
generate_coordinates_MinusOnesFirst(cat_lvl, default) ==
    IF Size2(default) = 0
    THEN IF cat_lvl <= 1
         THEN << <<-1>>, <<0>>, <<1>> >>
         ELSE NegOnes(cat_lvl - 1) \o Eye(cat_lvl - 1)
    ELSE default

generate_coordinates(cat_lvl, default) ==
    IF Size2(default) = 0
    THEN IF cat_lvl <= 1
         THEN << <<-1>>, <<0>>, <<1>> >>
         ELSE Eye(cat_lvl - 1) \o NegOnes(cat_lvl - 1)
    ELSE default

(* -------------------- derived quantities of optimize ------------------- *)
\* alphas = np.cumprod(plot_sizes[::-1])[::-1]
alphas(plot_sizes) == Reverse(CumProd(Reverse(plot_sizes)))
\* faulty variant: the leading 1 is missing
betas_NoLeadingOne(plot_sizes) == CumProd(plot_sizes)

\* betas = np.cumprod(np.concatenate((np.array([1]), plot_sizes)))
betas(plot_sizes) == CumProd(<<1>> \o plot_sizes)

\* width of every factor as np.where(factors[:, 1] > 1, factors[:, 1] - 1, 1)
FactorWidths(factors) ==
    [k \in 1..Len(factors) |-> IF factors[k][2] > 1 THEN factors[k][2] - 1 ELSE 1]
col_start(factors) == <<0>> \o CumSum(FactorWidths(factors))

(* ----------------------------- linear algebra -------------------------- *)
\* X^T X for a matrix with p columns
XtX(X, p) ==
    [a \in 1..p |-> [b \in 1..p |->
        SeqSum([r \in 1..Len(X) |-> X[r][a] * X[r][b]])]]

Minor(M, c) ==
    [r \in 1..(Len(M) - 1) |->
        [k \in 1..(Len(M) - 1) |-> M[r + 1][IF k < c THEN k ELSE k + 1]]]

RECURSIVE Det(_)
Det(M) ==
    IF Len(M) = 0 THEN 1
    ELSE IF Len(M) = 1 THEN M[1][1]
    ELSE SeqSum([c \in 1..Len(M) |->
            (IF c % 2 = 1 THEN 1 ELSE -1) * M[1][c] * Det(Minor(M, c))])

(* ------------------------- inputs of one call of doe ------------------- *)
\* plot_sizes: two easy-to-vary runs in each of two whole plots
PlotSizes == <<2, 2>>
\* factors: (stratum level, type); one continuous factor at level 0 and one
\* three-level categorical factor at level 1
Factors == << <<0, 1>>, <<1, 3>> >>
\* encode_model(model, factors): the two effect-coded columns of the
\* categorical factor and the interaction of the continuous factor with its
\* first column
ModelEnc == << <<0, 1, 0>>, <<0, 0, 1>>, <<1, 1, 0>> >>

NRuns == SeqProd(PlotSizes)
NFactors == Len(Factors)

\* lines 158-166 for these inputs (col_start is None in every call by doe)
Alphas == alphas(PlotSizes)
Betas == betas(PlotSizes)
ColStart == col_start(Factors)

\* ratios arguments: absent, one short, valid, first entry not 1, too long
RatioArgs ==
    { None, Some(<<2>>), Some(<<1, 2>>), Some(<<2, 1>>), Some(<<1, 2, 3>>) }

\* default_coords arguments: absent, or an override for the continuous
\* factor only (an empty array keeps the generated coordinates)
CoordOverride == << << <<-1>>, <<1>> >>, << <<>> >> >>
CoordArgs == { None, Some(CoordOverride) }

\* criteria plugged in as optim: accept a strict improvement of the
\* determinant, or accept whatever does not lower it
Criteria == {"strict", "weak"}
\* and a criterion that accepts a strict improvement but hands back the
\* State of the candidate it judged whatever its verdict
AnyCriteria == Criteria \cup {"eager"}

(* --------------------- external collaborators of doe ------------------- *)
\* encode_design / decode_design: a categorical level k (0-based) is the
\* k-th effect-coded row, a continuous value is kept
EncodeRow(row, factors) ==
    LET RECURSIVE Enc(_)
        Enc(k) ==
            IF k > Len(factors) THEN <<>>
            ELSE (IF factors[k][2] > 1
                     THEN generate_coordinates(factors[k][2], << <<>> >>)[row[k] + 1]
                     ELSE <<row[k]>>) \o Enc(k + 1)
    IN Enc(1)

encode_design(Y, factors) == [r \in 1..Len(Y) |-> EncodeRow(Y[r], factors)]

DecodeRow(row, factors) ==
    [k \in 1..Len(factors) |->
        LET c == col_start(factors)[k]
            w == FactorWidths(factors)[k]
            part == SubSeq(row, c + 1, c + w)
            gen == generate_coordinates(factors[k][2], << <<>> >>)
        IN IF factors[k][2] > 1
           THEN (CHOOSE lv \in 1..Len(gen) : gen[lv] = part) - 1
           ELSE part[1]]

decode_design(Y, factors) == [r \in 1..Len(Y) |-> DecodeRow(Y[r], factors)]

\* initialize_single(plot_sizes, factors, Y, coords): the buffer Y is
\* populated in place with the design drawn and returned
initialize_single(buf, drawn) == [r \in 1..Len(buf) |-> drawn[r]]

\* starting designs initialize_single can draw (decoded: value of the
\* continuous factor, level of the categorical factor), one row per run
InitDesigns(coords) ==
    IF coords.isNone
    THEN { << <<0, 0>>, <<0, 0>>, <<0, 0>>, <<0, 0>> >>,
           << <<-1, 1>>, <<-1, 1>>, <<-1, 0>>, <<1, 0>> >>,
           << <<-1, 0>>, <<0, 0>>, <<-1, 1>>, <<0, 1>> >>,
           << <<-1, 0>>, <<1, 0>>, <<-1, 2>>, <<1, 2>> >>,
           << <<-1, 1>>, <<-1, 1>>, <<-1, 0>>, <<0, 0>> >> }
    ELSE { << <<-1, 0>>, <<-1, 0>>, <<-1, 0>>, <<-1, 0>> >>,
           << <<-1, 1>>, <<-1, 1>>, <<-1, 0>>, <<1, 0>> >>,
           << <<-1, 0>>, <<-1, 0>>, <<-1, 2>>, <<1, 2>> >>,
           << <<-1, 0>>, <<1, 0>>, <<-1, 2>>, <<1, 2>> >> }

(* ------------------- the optimality criterion (optim) ------------------ *)
\* rows of the block (level, grp), 0-based and inclusive
BlockLo(plot_sizes, level, grp) == grp * betas(plot_sizes)[level + 1]
BlockHi(plot_sizes, level, grp) == (grp + 1) * betas(plot_sizes)[level + 1] - 1

\* X with the rows lo..hi (0-based) replaced by the rows of Xi
Splice(X, lo, hi, Xi) ==
    [r \in 1..Len(X) |-> IF lo + 1 <= r /\ r <= hi + 1 THEN Xi[r - lo] ELSE X[r]]

InfoDet(X) == Det(XtX(X, Len(ModelEnc)))

\* the State of the criterion: M stands for the information it keeps about
\* the accepted design (the determinant of X^T X, which Minv is derived from)
NoState == [live |-> FALSE, M |-> 0]
NoPrestate == [plot_sizes |-> <<>>, ratios |-> <<>>]

\* optim.preinit(plot_sizes, (model, model_enc), factors, ratios)
optim_preinit(plot_sizes, model, factors, rat) ==
    [plot_sizes |-> plot_sizes, ratios |-> rat]

\* optim.init(prestate, Y, X): raises LinAlgError on a singular design
optim_init(pre, Y_, X_) ==
    IF InfoDet(X_) = 0
    THEN [raised |-> TRUE, exc |-> "LinAlgError", state |-> NoState]
    ELSE [raised |-> FALSE, exc |-> "", state |-> [live |-> TRUE, M |-> InfoDet(X_)]]

\* optim.update(state, X, Xi_star, level, grp) when it does not raise
optim_update(cr, pre, st, X_, Xi_star, level, grp) ==
    LET Xn == Splice(X_, BlockLo(pre.plot_sizes, level, grp),
                     BlockHi(pre.plot_sizes, level, grp), Xi_star)
        d == InfoDet(Xn)
        acc == IF cr = "weak" THEN d >= st.M ELSE d > st.M
    IN [accept |-> acc,
        state |-> IF acc \/ cr = "eager" THEN [live |-> TRUE, M |-> d] ELSE st]

\* optim.metric(state, Y, X)
optim_metric(st, Y_, X_) == InfoDet(X_)


(* ------------------------- fragments of optimize ----------------------- *)
\* faulty variant: the override is ignored
possible_coords_NoOverride(dc, factors, f) ==
    generate_coordinates(factors[f + 1][2], << <<>> >>)

\* the coordinate set of factor f (0-based), override honoured
possible_coords(dc, factors, f) ==
    IF dc.isNone
    THEN generate_coordinates(factors[f + 1][2], << <<>> >>)
    ELSE generate_coordinates(factors[f + 1][2], dc.v[f + 1])

\* faulty variant: the coordinate is written to every run
SetBlock_EveryRun(Yd, lo, hi, col, coord) ==
    [r \in 1..Len(Yd) |->
        [c \in 1..Len(Yd[r]) |->
            IF col + 1 <= c /\ c <= col + Len(coord)
            THEN coord[c - col] ELSE Yd[r][c]]]

\* Y[runs, cols] = coord, runs = lo..hi and cols starting at col (0-based)
SetBlock(Yd, lo, hi, col, coord) ==
    [r \in 1..Len(Yd) |->
        IF lo + 1 <= r /\ r <= hi + 1
        THEN [c \in 1..Len(Yd[r]) |->
                 IF col + 1 <= c /\ c <= col + Len(coord)
                 THEN coord[c - col] ELSE Yd[r][c]]
        ELSE Yd[r]]

\* faulty variant: the rows are taken from the top of the design
Rows_FromTop(Yd, lo, hi) == SubSeq(Yd, 1, hi - lo + 1)

\* Y[runs] and Y[runs.start, cols]
Rows(Yd, lo, hi) == SubSeq(Yd, lo + 1, hi + 1)
BlockCoord(Yd, lo, col, w) == [k \in 1..w |-> Yd[lo + 1][col + k]]

\* if not np.all(new_coord == init_coord)
ShouldEvaluate(new_coord, init) == new_coord # init

\* faulty variant: no handler around optim.update
CatchesInOptimize_None(exc) == FALSE

\* except Exception: the handler around optim.update
CatchesInOptimize(exc) == TRUE

\* the State bound by "accept, state = optim.update(...)" when it returns
StateAfterUpdate(old, returned, accept) == returned

\* faulty variant: the candidate becomes the best coordinate whether accepted or not
KeepBest_Always(accept, new_coord, best) == new_coord

\* "if accept: best_coord = new_coord"
KeepBest(accept, new_coord, best) == IF accept THEN new_coord ELSE best

\* faulty variant: "updated = True" outside of "if accept"
MarkUpdated_Always(accept, upd) == TRUE

\* "if accept: updated = True"
MarkUpdated(accept, upd) == IF accept THEN TRUE ELSE upd

\* faulty variant: the block gets its original coordinate back
WriteBackCoord_Original(best, init) == init

\* the coordinate written by "Y[runs, cols] = best_coord"
WriteBackCoord(best, init) == best

\* faulty variant: the loop has no cap
AfterSweep_NoCap(upd, sweepsDone, max_it) == IF ~upd THEN "metric" ELSE "sweep"

\* "if not updated: break", else the for loop goes on while it < max_it
AfterSweep(upd, sweepsDone, max_it) ==
    IF ~upd THEN "metric"
    ELSE IF sweepsDone < max_it THEN "sweep" ELSE "metric"

(* --------------------------- fragments of doe -------------------------- *)
\* faulty variant: doe has no handler around optimize
CatchesInDoe_None(exc) == FALSE

\* except np.linalg.LinAlgError
CatchesInDoe(exc) == exc = "LinAlgError"

\* best_metric = -np.inf: below every metric the criterion returns
NegInf == -1

\* faulty variant: the callback gets the index of the restart, not the count
CallbackArg_ZeroBased(k) == k - 1

\* the argument of it_callback(i)
CallbackArg(k) == k

\* faulty variant: the comparison is missing
Improves_Always(m, best) == TRUE

\* faulty variant: a tie replaces the best design
Improves_OrEqual(m, best) == m >= best

\* if metric > best_metric
Improves(m, best) == m > best

\* np.concatenate(np.array([1]), ratios): the second positional argument is
\* the axis, and a 1-d array is no axis
np_concatenate(arrays, axis) ==
    [raised |-> TRUE, exc |-> "TypeError", v |-> <<>>]

\* faulty variant: the first entry of ratios of full length is not checked
NormalizeRatios_NoFirstCheck(rat, plot_sizes) ==
    IF rat.isNone
    THEN [raised |-> FALSE, exc |-> "", v |-> [k \in 1..Len(plot_sizes) |-> 1]]
    ELSE IF Len(rat.v) + 1 = Len(plot_sizes)
    THEN np_concatenate(<<1>>, rat.v)
    ELSE IF Len(rat.v) # Len(plot_sizes)
    THEN [raised |-> TRUE, exc |-> "AssertionError", v |-> <<>>]
    ELSE [raised |-> FALSE, exc |-> "", v |-> rat.v]

\* the ratios handed on by lines 320-326, or the exception they raise
NormalizeRatios(rat, plot_sizes) ==
    IF rat.isNone
    THEN [raised |-> FALSE, exc |-> "", v |-> [k \in 1..Len(plot_sizes) |-> 1]]
    ELSE IF Len(rat.v) + 1 = Len(plot_sizes)
    THEN np_concatenate(<<1>>, rat.v)
    ELSE IF Len(rat.v) # Len(plot_sizes)
    THEN [raised |-> TRUE, exc |-> "AssertionError", v |-> <<>>]
    ELSE IF rat.v[1] # 1
    THEN [raised |-> TRUE, exc |-> "AssertionError", v |-> <<>>]
    ELSE [raised |-> FALSE, exc |-> "", v |-> rat.v]

(* ------------------------------- state --------------------------------- *)
VARIABLES
    pc,             \* position in doe / optimize
    err,            \* the exception doe ended with ("" when none)
    ratios_arg, default_coords, crit,      \* arguments of doe
    ratios, prestate,
    Y,              \* the design buffer doe allocates once
    i, metrics, best_metric, best_Y,
    calls,          \* arguments it_callback was called with, in order
    result,         \* the decoded design doe returns
    Yoenc, X, state, it, fi, grp, ci, init_coord, best_coord, updated, metric,
    ev,             \* what the last step of the candidate loop did
    sweepLog,       \* metric of the design Y at the end of each sweep
    succ,           \* the metric returned by each successful optimize
    snap,           \* doe's results as they were when the attempt started
    faults,         \* exceptions raised by the criterion so far
    called,         \* collaborators called so far
    call            \* one call of a function of the module on its own

doeVars == <<err, ratios_arg, default_coords, crit, ratios, prestate, Y, i,
             metrics, best_metric, best_Y, calls, result, succ, snap, called>>
optVars == <<Yoenc, X, state, it, fi, grp, ci, init_coord, best_coord,
             updated, metric, ev, sweepLog>>
vars == <<pc, doeVars, optVars, faults, call>>

Zeros(n, m) == [r \in 1..n |-> [c \in 1..m |-> 0]]

\* the design best_Y refers to: best_Y = Y is the buffer itself, np.copy(Yo)
\* is a design of its own
BestDesign == IF best_Y.alias THEN Y ELSE best_Y.v

Level == Factors[fi + 1][1]
Jmp == Betas[Level + 1]
Col == ColStart[fi + 1]
Lo == grp * Jmp
Hi == (grp + 1) * Jmp - 1
Coords == possible_coords(default_coords, Factors, fi)

\* the locals of optimize outside a call
OptIdle ==
    /\ Yoenc' = <<>> /\ X' = <<>> /\ state' = NoState
    /\ it' = 0 /\ fi' = 0 /\ grp' = 0 /\ ci' = 0
    /\ init_coord' = <<>> /\ best_coord' = <<>>
    /\ updated' = FALSE /\ metric' = 0 /\ ev' = "none" /\ sweepLog' = <<>>

\* no function is being called on its own
NoCall == [op |-> "none", a |-> <<>>, b |-> <<>>, out |-> <<>>, done |-> FALSE]

\* the state doe starts in, its arguments drawn from the sets given
InitWith(ratioArgs, coordArgs, criteria) ==
    /\ pc = "start" /\ err = ""
    /\ ratios_arg \in ratioArgs
    /\ default_coords \in coordArgs
    /\ crit \in criteria
    /\ ratios = <<>> /\ prestate = NoPrestate
    /\ Y = Zeros(NRuns, NFactors)
    /\ i = 0 /\ metrics = [k \in 1..NTries |-> 0]
    /\ best_metric = NegInf /\ best_Y = [alias |-> TRUE, v |-> <<>>]
    /\ calls = <<>> /\ result = <<>>
    /\ Yoenc = <<>> /\ X = <<>> /\ state = NoState
    /\ it = 0 /\ fi = 0 /\ grp = 0 /\ ci = 0
    /\ init_coord = <<>> /\ best_coord = <<>>
    /\ updated = FALSE /\ metric = 0 /\ ev = "none" /\ sweepLog = <<>>
    /\ succ = <<>>
    /\ snap = [i |-> 0, metrics |-> <<>>, best_metric |-> NegInf, best |-> <<>>]
    /\ faults = 0 /\ called = {}

Init == InitWith(RatioArgs, CoordArgs, Criteria) /\ call = NoCall

(* ------------------------------ doe ------------------------------------ *)
\* lines 319-326: the ratios are defaulted, normalised or rejected
Validate ==
    /\ pc = "start"
    /\ LET n == NormalizeRatios(ratios_arg, PlotSizes)
       IN IF n.raised
          THEN pc' = "raised" /\ err' = n.exc /\ UNCHANGED ratios
          ELSE pc' = "preinit" /\ ratios' = n.v /\ UNCHANGED err
    /\ UNCHANGED <<ratios_arg, default_coords, crit, prestate, Y, i, metrics,
                   best_metric, best_Y, calls, result, succ, snap, called,
                   optVars, faults>>
    /\ UNCHANGED call

\* line 329
Preinit ==
    /\ pc = "preinit"
    /\ prestate' = optim_preinit(PlotSizes, ModelEnc, Factors, ratios)
    /\ called' = called \cup {"preinit"}
    /\ pc' = "loop"
    /\ UNCHANGED <<err, ratios_arg, default_coords, crit, ratios, Y, i,
                   metrics, best_metric, best_Y, calls, result, succ, snap,
                   optVars, faults>>
    /\ UNCHANGED call

\* lines 334-340: a new starting design is written into the buffer Y and
\* encoded into an array of its own
Attempt ==
    /\ pc = "loop" /\ i < NTries
    /\ \E d \in InitDesigns(default_coords) :
          /\ Y' = initialize_single(Y, d)
          /\ Yoenc' = encode_design(Y', Factors)
    /\ snap' = [i |-> i, metrics |-> metrics, best_metric |-> best_metric,
                best |-> BestDesign]
    /\ called' = called \cup {"initialize_single"}
    /\ pc' = "opt_init"
    /\ UNCHANGED <<err, ratios_arg, default_coords, crit, ratios, prestate, i,
                   metrics, best_metric, best_Y, calls, result, succ,
                   X, state, it, fi, grp, ci, init_coord, best_coord, updated,
                   metric, ev, sweepLog, faults>>
    /\ UNCHANGED call

\* where an exception leaving optimize lands in doe
Landing(exc) == IF CatchesInDoe(exc) THEN "except" ELSE "raised"

\* lines 350-356: the metric is stored, the best design replaced, i advanced
Record ==
    /\ pc = "record"
    /\ metrics' = [metrics EXCEPT ![i + 1] = metric]
    /\ IF Improves(metric, best_metric)
       THEN best_metric' = metric /\ best_Y' = [alias |-> FALSE, v |-> Yoenc]
       ELSE UNCHANGED <<best_metric, best_Y>>
    /\ i' = i + 1
    /\ succ' = Append(succ, metric)
    /\ pc' = "callback"
    /\ UNCHANGED <<err, ratios_arg, default_coords, crit, ratios, prestate, Y,
                   calls, result, snap, called, optVars, faults>>
    /\ UNCHANGED call

\* lines 357-358: it_callback(i)
Callback ==
    /\ pc = "callback"
    /\ calls' = Append(calls, CallbackArg(i))
    /\ pc' = "loop"
    /\ OptIdle
    /\ UNCHANGED <<err, ratios_arg, default_coords, crit, ratios, prestate, Y,
                   i, metrics, best_metric, best_Y, result, succ, snap, called,
                   faults>>
    /\ UNCHANGED call

\* faulty variant: a discarded attempt consumes a restart slot
Discard_ConsumesSlot ==
    /\ pc = "except"
    /\ pc' = "loop"
    /\ i' = i + 1
    /\ OptIdle
    /\ UNCHANGED <<err, ratios_arg, default_coords, crit, ratios, prestate, Y,
                   metrics, best_metric, best_Y, calls, result, succ, snap,
                   called, faults>>
    /\ UNCHANGED call

\* lines 359-360: except np.linalg.LinAlgError: pass
Discard ==
    /\ pc = "except"
    /\ pc' = "loop"
    /\ OptIdle
    /\ UNCHANGED <<doeVars, faults>>
    /\ UNCHANGED call

\* lines 363-365
Return ==
    /\ pc = "loop" /\ ~(i < NTries)
    /\ result' = decode_design(BestDesign, Factors)
    /\ pc' = "returned"
    /\ UNCHANGED <<err, ratios_arg, default_coords, crit, ratios, prestate, Y,
                   i, metrics, best_metric, best_Y, calls, succ, snap, called,
                   optVars, faults>>
    /\ UNCHANGED call

(* ---------------------------- optimize --------------------------------- *)
\* exceptions the criterion may still raise
Raisable(kinds) == IF faults < MaxFaults THEN kinds ELSE {}

\* lines 152-172
OptInit ==
    /\ pc = "opt_init"
    /\ X' = x2fx(Yoenc, ModelEnc)
    /\ called' = called \cup {"optimize"}
    /\ \E outcome \in {"ok"} \cup Raisable({"TypeError"}) :
          LET res == optim_init(prestate, Yoenc, X')
          IN IF outcome # "ok"
             THEN /\ pc' = Landing(outcome)
                  /\ err' = IF CatchesInDoe(outcome) THEN err ELSE outcome
                  /\ faults' = faults + 1
                  /\ UNCHANGED state
             ELSE IF res.raised
             THEN /\ pc' = Landing(res.exc)
                  /\ err' = IF CatchesInDoe(res.exc) THEN err ELSE res.exc
                  /\ UNCHANGED <<state, faults>>
             ELSE /\ state' = res.state
                  /\ pc' = IF 0 < MaxIt THEN "sweep" ELSE "metric"
                  /\ UNCHANGED <<err, faults>>
    /\ UNCHANGED <<ratios_arg, default_coords, crit, ratios, prestate, Y, i,
                   metrics, best_metric, best_Y, calls, result, succ, snap,
                   Yoenc, it, fi, grp, ci, init_coord, best_coord, updated,
                   metric, ev, sweepLog>>
    /\ UNCHANGED call

\* lines 175-177: a sweep starts
SweepStart ==
    /\ pc = "sweep"
    /\ updated' = FALSE
    /\ fi' = 0 /\ grp' = 0
    /\ ev' = "none"
    /\ pc' = "block"
    /\ UNCHANGED <<doeVars, faults, Yoenc, X, state, it, ci, init_coord,
                   best_coord, metric, sweepLog>>
    /\ UNCHANGED call

\* lines 184-203: the block (fi, grp) is entered
BlockStart ==
    /\ pc = "block"
    /\ init_coord' = BlockCoord(Yoenc, Lo, Col, Len(Coords[1]))
    /\ best_coord' = init_coord'
    /\ ci' = 0
    /\ ev' = "none"
    /\ pc' = "cand"
    /\ UNCHANGED <<doeVars, faults, Yoenc, X, state, it, fi, grp, updated,
                   metric, sweepLog>>
    /\ UNCHANGED call

\* lines 206-235: one candidate of the block
Candidate ==
    /\ pc = "cand" /\ ci < Len(Coords)
    /\ LET new_coord == Coords[ci + 1]
           Y1 == SetBlock(Yoenc, Lo, Hi, Col, new_coord)
           Xi_star == x2fx(Rows(Y1, Lo, Hi), ModelEnc)
       IN /\ Yoenc' = Y1
          /\ ci' = ci + 1
          /\ IF ~ShouldEvaluate(new_coord, init_coord)
             THEN /\ ev' = "skip"
                  /\ UNCHANGED <<state, X, best_coord, updated, faults, pc, err>>
             ELSE \E outcome \in {"ok"} \cup Raisable({"LinAlgError", "TypeError"}) :
                     IF outcome = "ok"
                     THEN LET res == optim_update(crit, prestate, state, X,
                                                  Xi_star, Level, grp)
                          IN /\ state' = StateAfterUpdate(state, res.state, res.accept)
                             /\ best_coord' = KeepBest(res.accept, new_coord, best_coord)
                             /\ updated' = MarkUpdated(res.accept, updated)
                             /\ IF res.accept
                                THEN /\ X' = Splice(X, Lo, Hi, Xi_star)
                                     /\ ev' = "accept"
                                ELSE /\ UNCHANGED X
                                     /\ ev' = "reject"
                             /\ UNCHANGED <<faults, pc, err>>
                     ELSE /\ faults' = faults + 1
                          /\ ev' = outcome
                          /\ UNCHANGED <<state, X, best_coord, updated>>
                          /\ IF CatchesInOptimize(outcome)
                             THEN UNCHANGED <<pc, err>>
                             ELSE /\ pc' = Landing(outcome)
                                  /\ err' = IF CatchesInDoe(outcome) THEN err ELSE outcome
    /\ UNCHANGED <<ratios_arg, default_coords, crit, ratios, prestate, Y, i,
                   metrics, best_metric, best_Y, calls, result, succ, snap,
                   called, it, fi, grp, init_coord, metric, sweepLog>>
    /\ UNCHANGED call

\* line 238 and the advance of the two for loops
BlockEnd ==
    /\ pc = "cand" /\ ~(ci < Len(Coords))
    /\ Yoenc' = SetBlock(Yoenc, Lo, Hi, Col, WriteBackCoord(best_coord, init_coord))
    /\ ev' = "writeback"
    /\ IF grp + 1 < Alphas[Level + 1]
       THEN grp' = grp + 1 /\ fi' = fi /\ pc' = "block"
       ELSE IF fi + 1 < NFactors
       THEN grp' = 0 /\ fi' = fi + 1 /\ pc' = "block"
       ELSE grp' = 0 /\ fi' = 0 /\ pc' = "sweep_end"
    /\ UNCHANGED <<doeVars, faults, X, state, it, ci, init_coord, best_coord,
                   updated, metric, sweepLog>>
    /\ UNCHANGED call

\* the criterion's metric of the design Yd, computed from scratch
DesignMetric(st, Yd) == optim_metric(st, Yd, x2fx(Yd, ModelEnc))

\* lines 241-244: stop, or resynchronise Minv from the whole of X
SweepEnd ==
    /\ pc = "sweep_end"
    /\ sweepLog' = Append(sweepLog, DesignMetric(state, Yoenc))
    /\ IF ~updated
       THEN /\ pc' = AfterSweep(updated, it + 1, MaxIt)
            /\ ev' = "none"
            /\ UNCHANGED <<state, it, err>>
       ELSE IF InfoDet(X) = 0
       THEN /\ pc' = Landing("LinAlgError")
            /\ err' = IF CatchesInDoe("LinAlgError") THEN err ELSE "LinAlgError"
            /\ ev' = "LinAlgError"
            /\ UNCHANGED <<state, it>>
       ELSE /\ state' = [state EXCEPT !.M = InfoDet(X)]
            /\ ev' = "resync"
            /\ it' = it + 1
            /\ pc' = AfterSweep(updated, it + 1, MaxIt)
            /\ UNCHANGED err
    /\ UNCHANGED <<ratios_arg, default_coords, crit, ratios, prestate, Y, i,
                   metrics, best_metric, best_Y, calls, result, succ, snap,
                   called, faults, Yoenc, X, fi, grp, ci, init_coord,
                   best_coord, updated, metric>>
    /\ UNCHANGED call

\* lines 247-249
OptReturn ==
    /\ pc = "metric"
    /\ metric' = optim_metric(state, Yoenc, X)
    /\ pc' = "record"
    /\ UNCHANGED <<doeVars, faults, Yoenc, X, state, it, fi, grp, ci,
                   init_coord, best_coord, updated, ev, sweepLog>>
    /\ UNCHANGED call

Next ==
    \/ Validate \/ Preinit \/ Attempt \/ Record \/ Callback \/ Discard
    \/ Return \/ OptInit \/ SweepStart \/ BlockStart \/ Candidate
    \/ BlockEnd \/ SweepEnd \/ OptReturn

Spec == Init /\ [][Next]_vars

\* doe run with any of the criteria, the one that returns a new State with
\* a reject included
InitAnyCriterion == InitWith(RatioArgs, CoordArgs, AnyCriteria) /\ call = NoCall

SpecAnyCriterion == InitAnyCriterion /\ [][Next]_vars

\* positions of doe and optimize; the last two are where doe has ended
PcValues ==
    {"start", "preinit", "loop", "opt_init", "sweep", "block", "cand",
     "sweep_end", "metric", "record", "callback", "except", "raised", "returned"}
Ended == pc \in {"raised", "returned"}

\* the interpreter goes on: every step of doe and optimize moves pc or the
\* candidate index, and one is possible wherever doe has not ended
Running ==
    /\ ~Ended
    /\ pc' \in PcValues
    /\ ci' \in 0..(Len(Coords) + 1)

\* the criterion is initialised on the starting design of an attempt
InitSucceeds == pc = "opt_init" /\ pc' = "sweep"

\* doe keeps running until it ends, and the restart attempts do not fail
\* for ever: of infinitely many attempts, infinitely many get past optim.init
FairSpec == Spec /\ WF_<<pc, ci>>(Running) /\ SF_pc(InitSucceeds)

(* ------------------ the functions called on their own ------------------ *)
\* design matrices handed to x2fx: one run, or two runs the second of which
\* is one of two fixed rows; two factors
X2fxVals == (-1)..MaxVal
X2fxRows == { <<u, v>> : u, v \in X2fxVals }
X2fxDesigns ==
    { <<r>> : r \in X2fxRows }
      \cup { <<r, q>> : r \in X2fxRows, q \in { <<2, 3>>, <<0, -1>> } }
\* models handed to x2fx: one or two terms of powers 0..MaxExp
X2fxTerms == { <<e, f>> : e, f \in 0..MaxExp }
X2fxModels ==
    { <<t>> : t \in X2fxTerms } \cup { <<t, u>> : t, u \in X2fxTerms }

\* arguments of generate_coordinates: the default empty array, empty arrays
\* of other shapes, and overrides
CoordDefaults ==
    { << <<>> >>, <<>>, << <<>>, <<>> >>,
      << <<-1>>, <<1>> >>, << <<0>> >>, << <<1, 0>>, <<-1, -1>> >>,
      << <<1, 0>>, <<0, 1>>, <<-1, -1>>, <<0, 0>> >> }

\* plot_sizes the strata are computed for
RECURSIVE SeqsUpTo(_, _)
SeqsUpTo(S, n) ==
    IF n = 0 THEN { <<>> }
    ELSE SeqsUpTo(S, n - 1)
           \cup { Append(q, x) : q \in { t \in SeqsUpTo(S, n - 1) : Len(t) = n - 1 },
                                 x \in S }
StrataPlotSizes == SeqsUpTo(1..MaxPlot, MaxStrata) \ { <<>> }

PureCalls ==
    { [op |-> "x2fx", a |-> Yd, b |-> m, out |-> <<>>, done |-> FALSE] :
          Yd \in X2fxDesigns, m \in X2fxModels }
      \cup { [op |-> "generate_coordinates", a |-> <<lv>>, b |-> d,
               out |-> <<>>, done |-> FALSE] :
                 lv \in 1..MaxLvl, d \in CoordDefaults }
      \cup { [op |-> "strata", a |-> ps, b |-> <<>>, out |-> <<>>, done |-> FALSE] :
                 ps \in StrataPlotSizes }

PureInit == InitWith({None}, {None}, {"strict"}) /\ call \in PureCalls

\* lines 42-52
CallX2fx ==
    /\ call.op = "x2fx" /\ ~call.done
    /\ call' = [call EXCEPT !.out = x2fx(call.a, call.b), !.done = TRUE]
    /\ UNCHANGED <<pc, doeVars, optVars, faults>>

\* lines 86-97
CallGenerateCoordinates ==
    /\ call.op = "generate_coordinates" /\ ~call.done
    /\ call' = [call EXCEPT !.out = generate_coordinates(call.a[1], call.b),
                            !.done = TRUE]
    /\ UNCHANGED <<pc, doeVars, optVars, faults>>

\* lines 158-159 and the row ranges of line 199 for every level and group
CallStrata ==
    /\ call.op = "strata" /\ ~call.done
    /\ call' = [call EXCEPT
                  !.out = [alphas |-> alphas(call.a), betas |-> betas(call.a),
                           runs |-> [l \in 1..Len(call.a) |->
                                      [g \in 1..alphas(call.a)[l] |->
                                         <<BlockLo(call.a, l - 1, g - 1),
                                           BlockHi(call.a, l - 1, g - 1)>>]]],
                  !.done = TRUE]
    /\ UNCHANGED <<pc, doeVars, optVars, faults>>

PureNext == CallX2fx \/ CallGenerateCoordinates \/ CallStrata

PureSpec == PureInit /\ [][PureNext]_vars

(* ============================ properties =============================== *)
Range(q) == {q[k] : k \in 1..Len(q)}

\* positions inside one call of optimize, and after its loop
OptPcs == {"sweep", "block", "cand", "sweep_end", "metric", "record"}
OptDonePcs == {"metric", "record"}

\* the design optimize was started on: the encoding of the buffer Y
Y0 == encode_design(Y, Factors)

\* the coordinate set of factor f: the override if one is supplied for it,
\* else the generated set
FactorCoordinateSet(f) ==
    IF ~default_coords.isNone /\ Size2(default_coords.v[f + 1]) # 0
    THEN Range(default_coords.v[f + 1])
    ELSE IF Factors[f + 1][2] <= 1
    THEN { <<-1>>, <<0>>, <<1>> }
    ELSE Range(Eye(Factors[f + 1][2] - 1)) \cup Range(NegOnes(Factors[f + 1][2] - 1))

\* every block of every factor of Yd holds one member of the factor's set
InProduct(Yd) ==
    \A f \in 0..(NFactors - 1) :
       \A g \in 0..(Alphas[Factors[f + 1][1] + 1] - 1) :
          LET lo == g * Betas[Factors[f + 1][1] + 1]
              hi == (g + 1) * Betas[Factors[f + 1][1] + 1] - 1
              c == ColStart[f + 1]
              w == ColStart[f + 2] - ColStart[f + 1]
          IN /\ BlockCoord(Yd, lo, c, w) \in FactorCoordinateSet(f)
             /\ \A r \in lo..hi : BlockCoord(Yd, r, c, w) = BlockCoord(Yd, lo, c, w)

\* C1: closed search space. Started on a design of the product of the
\* per-factor coordinate sets, the design optimize works on is a point of
\* that product in every state (after each trial candidate and each
\* write-back), and so is the design doe keeps from it.
C1_ClosedSearchSpace ==
    /\ (pc \in OptPcs \cup {"opt_init"}) => InProduct(Yoenc)
    /\ pc = "callback" => InProduct(BestDesign)

\* an accepted candidate of an overridden coordinate set has been written back
C1_Witness ==
    /\ pc \in OptPcs /\ ev = "writeback" /\ updated
    /\ ~default_coords.isNone
    /\ Yoenc # Y0

\* C2: for a criterion that accepts only what does not lower the metric, the
\* metric of the design held at the end of each completed sweep does not
\* decrease from sweep to sweep and is never below the metric of the starting
\* design, and neither is the metric optimize returns.
C2_MetricNonDecreasing ==
    (crit \in {"strict", "weak"} /\ pc \in {"sweep", "metric", "record"}) =>
        /\ \A k \in 1..Len(sweepLog) :
              /\ DesignMetric(state, Y0) <= sweepLog[k]
              /\ k > 1 => sweepLog[k - 1] <= sweepLog[k]
        /\ pc = "record" => /\ DesignMetric(state, Y0) <= metric
                            /\ metric = DesignMetric(state, Yoenc)

\* two sweeps completed, each ending on a better design than the one before
C2_Witness ==
    /\ pc = "record" /\ Len(sweepLog) = 2
    /\ DesignMetric(state, Y0) < sweepLog[1] /\ sweepLog[1] < sweepLog[2]
    /\ metric = sweepLog[2]

\* no candidate of any block of any factor is accepted for the starting design
NoImprovingCandidate ==
    LET X0 == x2fx(Y0, ModelEnc)
        st0 == optim_init(prestate, Y0, X0)
    IN /\ ~st0.raised
       /\ \A f \in 0..(NFactors - 1) :
          \A g \in 0..(Alphas[Factors[f + 1][1] + 1] - 1) :
          \A c \in Range(possible_coords(default_coords, Factors, f)) :
             LET lv == Factors[f + 1][1]
                 lo == g * Betas[lv + 1]
                 hi == (g + 1) * Betas[lv + 1] - 1
                 cs == ColStart[f + 1]
                 Yc == SetBlock(Y0, lo, hi, cs, c)
             IN c # BlockCoord(Y0, lo, cs, Len(c)) =>
                   ~optim_update(crit, prestate, st0.state, X0,
                                 x2fx(Rows(Yc, lo, hi), ModelEnc), lv, g).accept

\* C3: started on a design for which the criterion accepts no candidate,
\* optimize never sets "updated", runs exactly one sweep and returns the
\* starting design entry for entry.
C3_LocalOptimumOneSweep ==
    pc \in OptDonePcs =>
        \/ (~updated /\ Len(sweepLog) = 1 /\ Yoenc = Y0)
        \/ ~NoImprovingCandidate

\* optimize has returned from a start on which nothing could be accepted
C3_Witness == pc = "record" /\ NoImprovingCandidate /\ Len(sweepLog) = 1

\* C4: a candidate whose update fails numerically is a rejected candidate:
\* the scan goes on with the next candidate of the same block, and the State,
\* X, the provisional best coordinate and "updated" are what they were before
\* the failing call.
C4_NumericalFailureIsReject ==
    [][(pc = "cand" /\ ev' = "LinAlgError" /\ faults' = faults + 1) =>
          /\ pc' = "cand" /\ ci' = ci + 1 /\ fi' = fi /\ grp' = grp
          /\ state' = state /\ X' = X
          /\ best_coord' = best_coord /\ updated' = updated
          /\ err' = err]_vars

\* update has failed numerically on a candidate after an earlier candidate
\* was accepted, and candidates of the block remain to be scanned
C4_Witness ==
    /\ pc = "cand" /\ ev = "LinAlgError" /\ ci < Len(Coords)
    /\ updated

\* what a failed attempt must leave alone, the best design left out
FailedAttemptKeepsResults ==
    /\ pc = "except" => /\ i = snap.i
                        /\ metrics = snap.metrics
                        /\ best_metric = snap.best_metric
                        /\ err = ""
    /\ Len(succ) = i
    /\ \A k \in 1..i : metrics[k] = succ[k]
    /\ pc = "returned" => i = NTries

\* C5 as stated: a restart attempt whose optimization fails numerically
\* leaves the completed count, the metrics vector, the best metric and the
\* best design as they were and is not surfaced; the entries of metrics are
\* the metrics of the successful attempts in completion order, n_tries of
\* them on return.
C5_FailedAttemptChangesNothing ==
    /\ FailedAttemptKeepsResults
    /\ pc = "except" => BestDesign = snap.best

\* C5 amended: the same, the best design being unchanged once a restart has
\* been recorded (until then best_Y is the buffer Y, which the attempt's
\* starting design is written into).
C5_FailedAttemptKeepsRecorded ==
    /\ FailedAttemptKeepsResults
    /\ (pc = "except" /\ i >= 1) => BestDesign = snap.best

\* an attempt has failed after a restart was recorded
C5_Witness == pc = "except" /\ i >= 1 /\ ~best_Y.alias /\ Y0 # BestDesign

\* C6: it_callback is called once per successful restart, never for a failed
\* attempt, with 1, 2, ..., n_tries in this order, each call after the
\* restart's metric is recorded and the best design updated.
C6_CallbackOncePerRestart ==
    /\ calls = [k \in 1..Len(calls) |-> k]
    /\ Len(calls) = IF pc = "callback" THEN i - 1 ELSE i
    /\ Len(calls) <= Len(succ)
    /\ pc = "callback" => (metrics[i] = metric /\ best_metric >= metric)
    /\ pc = "returned" => Len(calls) = NTries

\* doe has returned after calling back for every restart
C6_Witness == pc = "returned" /\ Len(calls) = NTries /\ calls[NTries] = NTries

MaxOf(S) == CHOOSE m \in S : \A x \in S : x <= m

\* C7: the best metric is the maximum of the metrics recorded so far (minus
\* infinity before the first), the best design is the design returned by
\* the restart that first reached it, and doe returns that design decoded.
C7_BestIsMaximum ==
    /\ i = 0 => best_metric = NegInf
    /\ i >= 1 => /\ best_metric = MaxOf({metrics[k] : k \in 1..i})
                 /\ ~best_Y.alias
    /\ pc = "callback" =>
          /\ DesignMetric(NoState, BestDesign) = best_metric
          /\ IF \A k \in 1..(i - 1) : metrics[k] < metric
             THEN BestDesign = Yoenc
             ELSE BestDesign = snap.best
    /\ pc = "returned" => /\ encode_design(result, Factors) = BestDesign
                          /\ DesignMetric(NoState, BestDesign) = best_metric

\* doe has returned the design of a restart that a worse restart followed
C7_Witness ==
    /\ pc = "returned"
    /\ \E j, k \in 1..NTries : j < k /\ metrics[j] > metrics[k]

\* ratios that doe must reject
RatiosInvalid(rat, plot_sizes) ==
    /\ ~rat.isNone
    /\ \/ (Len(rat.v) # Len(plot_sizes) /\ Len(rat.v) + 1 # Len(plot_sizes))
       \/ (Len(rat.v) = Len(plot_sizes) /\ rat.v[1] # 1)

\* C8: ratios of a wrong length, or of the length of plot_sizes with a first
\* entry other than 1, end doe with a validation failure before preinit is
\* called, before a starting design is generated and before optimize runs.
C8_InvalidRatiosRejected ==
    RatiosInvalid(ratios_arg, PlotSizes) =>
        /\ pc \in {"start", "raised"}
        /\ pc = "raised" => err = "AssertionError"
        /\ prestate = NoPrestate /\ called = {} /\ Y = Zeros(NRuns, NFactors)

\* ratios as long as plot_sizes whose first entry is not 1 have been rejected
C8_Witness ==
    /\ pc = "raised" /\ err = "AssertionError"
    /\ Len(ratios_arg.v) = Len(PlotSizes) /\ ratios_arg.v[1] # 1

\* C9 as stated: ratios one entry shorter than plot_sizes get a 1 prepended,
\* that vector is handed to preinit and doe goes on to the restarts without
\* raising; absent ratios become all ones.
C9_ShortRatiosPrepended ==
    /\ (~ratios_arg.isNone /\ Len(ratios_arg.v) + 1 = Len(PlotSizes)
          /\ pc # "start") =>
            /\ ~(pc = "raised" /\ called = {})
            /\ ratios = <<1>> \o ratios_arg.v
            /\ "preinit" \in called => prestate.ratios = <<1>> \o ratios_arg.v
    /\ (ratios_arg.isNone /\ pc # "start") =>
            ratios = [k \in 1..Len(PlotSizes) |-> 1]

\* C10 as stated: a failure of the criterion that is not numerical is not
\* recovered from: it ends optimize and doe with that error.
C10_OtherFailureIsFatal ==
    ev = "TypeError" => (pc = "raised" /\ err = "TypeError")

(* -------------------------------- x2fx --------------------------------- *)
\* the product over the factors with a nonzero power of the entry raised to
\* that power
TermValue(row, term) ==
    SeqProd([j \in 1..Len(term) |->
                IF term[j] # 0 THEN Pow(row[j], term[j]) ELSE 1])

\* C11: x2fx returns one row per run and one column per model term; entry
\* (r, t) is the product over the factors with a nonzero power in term t of
\* Y[r, j] raised to that power; a term of zeros gives a column of ones, and
\* the model [[1,0],[0,1]] applied to Y = [[2,3]] gives [[2,3]].
C11_X2fxEntries ==
    (call.op = "x2fx" /\ call.done) =>
        /\ Len(call.out) = Len(call.a)
        /\ \A r \in 1..Len(call.a) :
              /\ Len(call.out[r]) = Len(call.b)
              /\ \A t \in 1..Len(call.b) :
                    /\ call.out[r][t] = TermValue(call.a[r], call.b[t])
                    /\ call.b[t] = <<0, 0>> => call.out[r][t] = 1
        /\ (call.a = << <<2, 3>> >> /\ call.b = << <<1, 0>>, <<0, 1>> >>) =>
              call.out = << <<2, 3>> >>

\* x2fx has built the matrix of two runs for a term with a square and a
\* term of zeros
C11_Witness ==
    /\ call.op = "x2fx" /\ call.done
    /\ call.a = << <<-1, 3>>, <<2, 3>> >>
    /\ call.b = << <<1, 2>>, <<0, 0>> >>
    /\ call.out = << <<-9, 1>>, <<18, 1>> >>

(* ------------------------- generate_coordinates ------------------------ *)
\* an override that holds at least one entry
NonEmptyOverride(d) == \E r \in 1..Len(d) : Len(d[r]) > 0

\* C12: generate_coordinates returns a supplied non-empty override verbatim
\* whatever the level count; without one it returns [-1], [0], [1] for a
\* continuous factor and, for L >= 2 levels, L rows of width L-1: the rows
\* of the identity in order, then one row of -1.
C12_CoordinateSets ==
    (call.op = "generate_coordinates" /\ call.done) =>
        LET L == call.a[1]
        IN IF NonEmptyOverride(call.b) THEN call.out = call.b
           ELSE IF L = 1 THEN call.out = << <<-1>>, <<0>>, <<1>> >>
           ELSE /\ Len(call.out) = L
                /\ \A r \in 1..L : Len(call.out[r]) = L - 1
                /\ \A r \in 1..(L - 1) : \A c \in 1..(L - 1) :
                      call.out[r][c] = IF r = c THEN 1 ELSE 0
                /\ \A c \in 1..(L - 1) : call.out[L][c] = -1
                /\ L = 3 => call.out = << <<1, 0>>, <<0, 1>>, <<-1, -1>> >>

\* the coordinates of a three-level factor have been generated, and an
\* override was returned for a factor of as many levels
C12_Witness ==
    /\ call.op = "generate_coordinates" /\ call.done /\ call.a = <<3>>
    /\ \/ (call.b = << <<>> >> /\ call.out = << <<1, 0>>, <<0, 1>>, <<-1, -1>> >>)
       \/ (call.b = << <<-1>>, <<1>> >> /\ call.out = call.b)

(* ------------------------ the scan of one block ------------------------ *)
\* the design with the block being scanned holding the provisional best
\* coordinate: the last accepted candidate, or the original coordinate
AcceptedDesign == SetBlock(Yoenc, Lo, Hi, Col, best_coord)

\* the criterion's verdict on design Yc against design Ya
Prefers(Yc, Ya) ==
    IF crit = "strict"
    THEN InfoDet(x2fx(Yc, ModelEnc)) > InfoDet(x2fx(Ya, ModelEnc))
    ELSE InfoDet(x2fx(Yc, ModelEnc)) >= InfoDet(x2fx(Ya, ModelEnc))

\* the scan order: candidates in coordinate-set order, blocks by increasing
\* index, factors in factor order
ScanOrderStep ==
    /\ pc = "sweep" => (pc' = "block" /\ fi' = 0 /\ grp' = 0)
    /\ pc = "block" => (pc' = "cand" /\ ci' = 0 /\ fi' = fi /\ grp' = grp)
    /\ (pc = "cand" /\ pc' = "cand") =>
          /\ ci' = ci + 1 /\ fi' = fi /\ grp' = grp
          /\ BlockCoord(Yoenc', Lo, Col, Len(Coords[ci + 1])) = Coords[ci + 1]
    /\ (pc = "cand" /\ pc' \in {"block", "sweep_end"}) =>
          /\ ci = Len(Coords)
          /\ IF grp + 1 < Alphas[Level + 1]
             THEN pc' = "block" /\ fi' = fi /\ grp' = grp + 1
             ELSE IF fi + 1 < NFactors
             THEN pc' = "block" /\ fi' = fi + 1 /\ grp' = 0
             ELSE pc' = "sweep_end"

\* an evaluated candidate meets the State and the X of the design that holds
\* the last accepted candidate, and is judged against that design
EvaluatedAgainstAcceptedStep ==
    (pc = "cand" /\ ev' \in {"accept", "reject"}) =>
        /\ X = x2fx(AcceptedDesign, ModelEnc)
        /\ state = [live |-> TRUE, M |-> InfoDet(x2fx(AcceptedDesign, ModelEnc))]
        /\ (ev' = "accept") <=> Prefers(Yoenc', AcceptedDesign)

\* the provisional best is the last accepted candidate, the original
\* coordinate until one is accepted, and it is what the scan leaves behind
BestCoordStep ==
    /\ pc = "block" => (best_coord' = BlockCoord(Yoenc, Lo, Col, Len(Coords[1]))
                          /\ init_coord' = best_coord')
    /\ (pc = "cand" /\ pc' = "cand") =>
          /\ best_coord' = IF ev' = "accept" THEN Coords[ci + 1] ELSE best_coord
          /\ init_coord' = init_coord
    /\ (pc = "cand" /\ ev' = "writeback") =>
          /\ Yoenc' = AcceptedDesign
          /\ \A r \in Lo..Hi :
                BlockCoord(Yoenc', r, Col, Len(best_coord)) = best_coord

AgreeOnRows(Xm, Yd, lo, hi) ==
    \A r \in (lo + 1)..(hi + 1) : Xm[r] = x2fx(<<Yd[r]>>, ModelEnc)[1]

\* C14: started on a design constant within every block of every factor,
\* X equals x2fx(Y, model) on every row at the end of every block scan, at
\* every sweep boundary and on return; while a block is scanned X may
\* differ from x2fx(Y, model) on the rows of that block only.
C14_ModelMatrixFollowsDesign ==
    /\ pc \in {"sweep", "block", "sweep_end", "metric", "record"} =>
          /\ Len(X) = NRuns
          /\ X = x2fx(Yoenc, ModelEnc)
    /\ pc = "cand" =>
          /\ AgreeOnRows(X, Yoenc, 0, Lo - 1)
          /\ AgreeOnRows(X, Yoenc, Hi + 1, NRuns - 1)

\* a trial candidate sits in Y while X still holds the rows of an earlier
\* accepted candidate of the block
C14_Witness ==
    /\ pc = "cand" /\ ev = "reject" /\ best_coord # init_coord
    /\ ~AgreeOnRows(X, Yoenc, Lo, Hi)
    /\ InProduct(Y0)

(* ---------------------------- the sweep loop --------------------------- *)
\* how the loop of optimize goes on after a sweep, and what it does to the
\* State and to the metric
SweepLoopStep ==
    /\ pc' = "sweep" =>
          \/ (pc = "opt_init" /\ 0 < MaxIt)
          \/ (pc = "sweep_end" /\ updated /\ Len(sweepLog') < MaxIt)
    /\ (pc = "sweep_end" /\ ~updated) =>
          (pc' = "metric" /\ state' = state /\ ev' # "resync")
    /\ (pc = "sweep_end" /\ updated) =>
          \/ pc' \in {"except", "raised"}
          \/ /\ ev' = "resync"
             /\ state' = [live |-> TRUE, M |-> InfoDet(X)]
             /\ pc' = IF Len(sweepLog') < MaxIt THEN "sweep" ELSE "metric"
    /\ (ev' = "resync" /\ ev # "resync") => (pc = "sweep_end" /\ updated)
    /\ pc' = "metric" => pc \in {"opt_init", "sweep_end"}
    /\ pc = "metric" => (pc' = "record" /\ metric' = optim_metric(state, Yoenc, X))
    /\ (pc \in {"opt_init", "sweep", "block", "cand", "sweep_end"}
          /\ pc' \in OptPcs) => metric' = metric
    /\ pc' = "record" => pc = "metric"

\* C15: optimize terminates after at most max_it sweeps. A new sweep starts
\* only if the one before accepted a candidate and fewer than max_it have
\* run; the loop stops at the first sweep that accepts nothing; the inverse
\* is resynchronised from the whole of X after every sweep that accepted a
\* candidate (the last one the cap allows included) and after no other; the
\* metric is computed once, after the loop.
C15_SweepsBounded ==
    /\ [][SweepLoopStep]_vars
    /\ [](Len(sweepLog) <= MaxIt)
    /\ [](pc = "opt_init" => <>(pc \in {"record", "except", "raised"}))

\* optimize has come out of the loop at the cap, after a last sweep that
\* accepted a candidate and was followed by a resynchronisation
C15_Witness ==
    /\ pc = "metric" /\ Len(sweepLog) = MaxIt /\ updated /\ ev = "resync"

(* ------------------------ discard and retry ---------------------------- *)
\* a discarded attempt leads back to the head of the loop with the count of
\* restarts and the error as they were, short of n_tries: the next attempt
\* is made whatever the number of attempts that failed before
RetryStep ==
    pc = "except" =>
        (pc' = "loop" /\ i' = i /\ i < NTries /\ err' = err /\ err = "")

\* C16: the discard-and-retry loop of doe has no bound on failed attempts.
\* doe returns only when n_tries attempts have succeeded, and does return
\* once they have; it ends if the attempts do not fail for ever; a numerical
\* failure of an attempt is never raised, and while attempts keep failing
\* doe neither returns nor raises.
C16_RetryUntilSucceeded ==
    /\ [][RetryStep]_vars
    /\ [](pc = "returned" => (i = NTries /\ Len(succ) = NTries))
    /\ [](err # "LinAlgError")
    /\ <>Ended
    /\ [](Len(succ) = NTries => <>(pc = "returned"))
    /\ ([]<>(pc = "except") => [](~Ended))

\* an attempt has failed on a singular starting design and doe is back at
\* the head of its loop, the count unchanged, free to draw that design again
C16_Witness ==
    /\ pc = "loop" /\ i < NTries /\ i = snap.i /\ err = ""
    /\ "optimize" \in called
    /\ InfoDet(x2fx(Y0, ModelEnc)) = 0
    /\ \E d \in InitDesigns(default_coords) : initialize_single(Y, d) = Y

(* ------------------------ the State after a reject --------------------- *)
\* C17 as stated: the State returned by update is kept only when the
\* candidate is accepted; when update rejects without failing, the State the
\* next candidate meets is the State held before the call, for any
\* criterion, one that returns another State with a reject included.
C17_RejectKeepsState ==
    [][(pc = "cand" /\ ev' = "reject") => state' = state]_vars

(* ------------------------------ the strata ----------------------------- *)
\* the runs lo..hi (0-based, inclusive) of a block given as <<lo, hi>>
BlockRuns(b) == b[1]..b[2]

\* C18: for every level l of plot_sizes the blocks optimize scans for a
\* factor at level l partition the runs: jump[l] (the product of the plot
\* sizes below l) times groupCount[l] (the product of the plot sizes at l
\* and above) is the number of runs; the groupCount[l] row ranges
\* [grp*jump, (grp+1)*jump) are pairwise disjoint, lie inside the design and
\* cover every run once; a block of level l+1 is a union of whole blocks of
\* level l.
C18_BlocksPartitionRuns ==
    (call.op = "strata" /\ call.done) =>
        LET ps == call.a
            n == Len(ps)
            N == SeqProd(ps)
            o == call.out
        IN \A l \in 1..n :
              LET jump == o.betas[l]
                  groupCount == o.alphas[l]
                  blocks == o.runs[l]
              IN /\ jump = SeqProd(SubSeq(ps, 1, l - 1))
                 /\ groupCount = SeqProd(SubSeq(ps, l, n))
                 /\ jump * groupCount = N
                 /\ Len(blocks) = groupCount
                 /\ \A g \in 1..groupCount :
                       /\ blocks[g] = <<(g - 1) * jump, g * jump - 1>>
                       /\ BlockRuns(blocks[g]) \subseteq 0..(N - 1)
                       /\ \A h \in 1..groupCount :
                             g # h => BlockRuns(blocks[g]) \cap BlockRuns(blocks[h]) = {}
                 /\ \A r \in 0..(N - 1) :
                       Cardinality({g \in 1..groupCount : r \in BlockRuns(blocks[g])}) = 1
                 /\ l < n =>
                       \A G \in 1..Len(o.runs[l + 1]) :
                          BlockRuns(o.runs[l + 1][G]) =
                             UNION { BlockRuns(blocks[g]) :
                                       g \in { h \in 1..groupCount :
                                                 BlockRuns(blocks[h]) \subseteq
                                                    BlockRuns(o.runs[l + 1][G]) } }

\* the strata of twelve runs in three levels have been computed
C18_Witness ==
    /\ call.op = "strata" /\ call.done /\ call.a = <<2, 3, 2>>
    /\ call.out.alphas = <<12, 6, 2>>
    /\ call.out.betas = <<1, 2, 6, 12>>
    /\ call.out.runs[2] = << <<0, 1>>, <<2, 3>>, <<4, 5>>, <<6, 7>>, <<8, 9>>, <<10, 11>> >>

(* ---------------------- what a block scan leaves alone ----------------- *)
\* the columns of factor f (0-based factor, 1-based columns): they start at
\* the sum of the widths of the factors before it
FactorColumns(f) ==
    LET w == [k \in 1..NFactors |->
                 IF Factors[k][2] > 1 THEN Factors[k][2] - 1 ELSE 1]
        before == SeqSum(SubSeq(w, 1, f))
    IN (before + 1)..(before + w[f + 1])

\* the column ranges of distinct factors do not overlap, and are the ranges
\* optimize writes to
ColumnRangesDisjoint ==
    /\ \A f, g \in 0..(NFactors - 1) :
          f # g => FactorColumns(f) \cap FactorColumns(g) = {}
    /\ \A f \in 0..(NFactors - 1) :
          FactorColumns(f) = (ColStart[f + 1] + 1)..ColStart[f + 2]

\* a step of the scan of block (fi, grp) changes Y in the rows of the block
\* and the columns of the factor only, and X in the rows of the block only
BlockFrameStep ==
    /\ pc = "block" => (Yoenc' = Yoenc /\ X' = X)
    /\ pc = "cand" =>
          /\ Len(Yoenc') = NRuns /\ Len(X') = NRuns
          /\ \A r \in 1..NRuns :
                /\ Len(Yoenc'[r]) = Len(Yoenc[r])
                /\ \A c \in 1..Len(Yoenc[r]) :
                      (r \notin (Lo + 1)..(Hi + 1) \/ c \notin FactorColumns(fi))
                          => Yoenc'[r][c] = Yoenc[r][c]
                /\ r \notin (Lo + 1)..(Hi + 1) => X'[r] = X[r]

\* C19: scanning one block (factor i, block grp), the column offsets being
\* the exclusive prefix sum of the factor widths, changes only the entries
\* of Y in the rows of the block and the columns of the factor and only the
\* rows of X of the block; the column ranges of distinct factors do not
\* overlap.
C19_BlockScanFrame == [][BlockFrameStep /\ ColumnRangesDisjoint]_vars

\* a candidate of the categorical factor has been accepted in the second
\* whole plot: two columns of two rows of Y and two rows of X have changed
C19_Witness ==
    /\ pc = "cand" /\ ev = "accept" /\ fi = 1 /\ grp = 1
    /\ Lo = 2 /\ Hi = 3 /\ FactorColumns(fi) = 2..3
    /\ BlockCoord(Yoenc, Lo, Col, 2) # init_coord

(* ------------------------- the stored best ----------------------------- *)
\* once a restart is recorded, a step changes the stored best design or the
\* best metric only by recording a restart with a strictly greater metric
BestChangesStep ==
    i >= 1 =>
        ((BestDesign' # BestDesign \/ best_metric' # best_metric
             \/ best_Y' # best_Y) =>
            /\ pc = "record" /\ metric > best_metric
            /\ best_metric' = metric /\ BestDesign' = Yoenc)

\* C20: once doe has recorded a best design, a later restart changes the
\* best design and the best metric only if its metric is strictly greater
\* than the best metric: a restart with an equal or lower metric, a failed
\* attempt, and the generation and optimization of later starting designs
\* leave them unchanged, so among restarts tied at the maximum the earliest
\* is the one returned.
C20_BestChangesOnlyOnImprovement ==
    /\ [][BestChangesStep]_vars
    /\ []((pc = "callback" /\ i >= 2 /\ metric <= snap.best_metric) =>
            (BestDesign = snap.best /\ best_metric = snap.best_metric))
    /\ []((pc = "except" /\ i >= 1) =>
            (BestDesign = snap.best /\ best_metric = snap.best_metric))

\* a later restart has tied the best metric with another design and the
\* earlier design is still the stored one
C20_Witness ==
    /\ pc = "callback" /\ i >= 2
    /\ metric = snap.best_metric /\ Yoenc # snap.best
    /\ BestDesign = snap.best

====
